---- MODULE Spec2Model ----
(***************************************************************************)
(* Model of the songplayer scripts:                                        *)
(*   scripts/adjust_song.py         - the timeline editor                  *)
(*   scripts/process_sheet_music.py - the MusicXML importer and quantizer  *)
(*                                                                         *)
(* Events are Python dicts and are modelled as records whose DOMAIN is the *)
(* dict's key set: a pitched event has the key "note", a rest has the key  *)
(* "rest", and "time"/"measure" are present only once the code set them.   *)
(*                                                                         *)
(* Beat quantities (time, duration) are Python floats.  They are modelled  *)
(* as exact multiples of 1/Beat of a beat, i.e. the integer n stands for   *)
(* n / Beat beats.  All values that occur (halves, thirds, quarters of a   *)
(* beat) are multiples of 1/12.                                            *)
(***************************************************************************)
EXTENDS Integers, Sequences, FiniteSets, TLC

VARIABLES
    timeSignature,  \* song["timeSignature"] of the loaded song
    notes,          \* song["notes"] of the loaded song
    op,             \* the last editor call and its arguments
    prev,           \* song["notes"] before the last editor call
    base,           \* when the last two calls were shift_measures(m) then
                    \* remove_measure(m): song["notes"] before the shift
    nEdits,         \* number of editor calls made so far
    \* process_sheet_music.py: combine_parts and convert_to_json
    pc,             \* position of the importer in its loops
    divisions,      \* divisions of the document being read
    current_time,   \* combine_parts: current_time
    measure_time,   \* combine_parts: measure_time
    combined_notes, \* combine_parts: combined_notes, then song_data["notes"]
    notes_by_time,  \* convert_to_json: notes_by_time
    written,        \* the events written to the "notes" array of the JSON file
    read            \* what was read so far: the numbers of documents and
                    \* of measure elements, and for every event appended
                    \* its note element and the numbers of its document
                    \* and measure

editorVars == <<timeSignature, notes, op, prev, base, nEdits>>
importerVars == <<pc, divisions, current_time, measure_time, combined_notes,
                  notes_by_time, written, read>>
vars == <<editorVars, importerVars>>

(***************************************************************************)
(* Scale and bounds.                                                       *)
(***************************************************************************)
Beat == 12          \* ticks of the model per beat

MaxEdits == 2       \* editor calls per behaviour
MaxInitNotes == 2   \* events of the loaded song
MaxFiles == 2       \* documents of the imported piece
MaxMeasures == 2    \* measure elements of the piece
MaxNotes == 3       \* events extracted from the piece

TimeSignatures == {<<3, 4>>, <<4, 4>>}
MeasureIndices == 0..1                  \* measure_index arguments
InitMeasures == 1..3                    \* measures of the loaded song
NoteOffset == 0 * Beat                  \* each measure of the loaded song may
RestOffset == Beat + Beat \div 2        \* hold a G4 on its downbeat and a rest
                                        \* 1.5 beats into it
StartTimes == {0, RestOffset}           \* --start-time arguments (0, 1.5 beats)
TimeOffsets == {-(2 * Beat + Beat \div 2), 2 * Beat + Beat \div 2}
                                        \* --offset arguments (-2.5, 2.5 beats)

\* A note name is a Python string, modelled as the sequence of its characters.
G4 == <<"G", "4">>

(***************************************************************************)
(* adjust_song.py                                                          *)
(***************************************************************************)

\* get_beats_per_measure: timeSignature[0] (Python index 0), in ticks.
get_beats_per_measure(sig) == sig[1] * Beat

\* The data model's formula floor(t / bpm) + 1 (\div rounds toward minus
\* infinity).
MeasureOf(t, bpm) == (t \div bpm) + 1

\* Python int(x / y) for y > 0: truncation toward zero.
IntTrunc(x, y) == IF x >= 0 THEN x \div y ELSE -((-x) \div y)

\* Slip: the copy's measure is not advanced.
shifted_copy_keeps_measure(note, bpm) == [note EXCEPT !.time = @ + bpm]

\* shift_measures: the copy made of a note at or after the shift point.
shifted_copy(note, bpm) == [note EXCEPT !.time = @ + bpm, !.measure = @ + 1]

\* Slip: <= for <, so that measure measure_index + 1 itself stays.
shift_note_from_next(note, measure_index, bpm) ==
    IF note.measure <= measure_index + 1
    THEN note
    ELSE shifted_copy(note, bpm)

\* shift_measures, the body of the for loop for one note.
shift_note(note, measure_index, bpm) ==
    IF note.measure < measure_index + 1
    THEN note
    ELSE shifted_copy(note, bpm)

\* shift_measures: adjusted_notes built note by note, in order.
shift_measures(ns, measure_index, bpm) ==
    [i \in 1..Len(ns) |-> shift_note(ns[i], measure_index, bpm)]

\* Slip: the copy's time is not moved back.
unshifted_copy_keeps_time(note, bpm) == [note EXCEPT !.measure = @ - 1]

\* remove_measure: the copy made of a note after the removed measure.
unshifted_copy(note, bpm) == [note EXCEPT !.time = @ - bpm, !.measure = @ - 1]

\* remove_measure: the for loop, appending to adjusted_notes.
RECURSIVE remove_loop(_, _, _, _)
remove_loop(ns, i, measure_index, bpm) ==
    IF i > Len(ns) THEN <<>>
    ELSE LET note == ns[i]
             rest == remove_loop(ns, i + 1, measure_index, bpm)
         IN  IF note.measure < measure_index + 1
             THEN <<note>> \o rest
             ELSE IF note.measure > measure_index + 1
                  THEN <<unshifted_copy(note, bpm)>> \o rest
                  ELSE rest

\* Slip: measure_index taken as 1-based.
remove_measure_one_based(ns, measure_index, bpm) ==
    remove_loop(ns, 1, measure_index - 1, bpm)

remove_measure(ns, measure_index, bpm) == remove_loop(ns, 1, measure_index, bpm)

\* Slip: the elif branch is missing, so that the index stays 0 when no later
\* event exists.
insertion_index_no_append(ns, measure_index) ==
    LET later == {i \in 1..Len(ns) : ns[i].measure > measure_index + 1}
    IN  IF later # {}
        THEN (CHOOSE i \in later : \A j \in later : i <= j) - 1
        ELSE 0

\* add_measure_with_note: the search for insertion_index (0-based, as in the
\* code): the first i with measure > measure_index + 1, else len(notes) set
\* on the last iteration, else the initial 0 when the loop body never runs.
insertion_index(ns, measure_index) ==
    LET later == {i \in 1..Len(ns) : ns[i].measure > measure_index + 1}
    IN  IF later # {}
        THEN (CHOOSE i \in later : \A j \in later : i <= j) - 1
        ELSE IF Len(ns) = 0 THEN 0 ELSE Len(ns)

\* list.insert(index, x) for 0 <= index <= len.
ListInsert(ns, index, x) ==
    SubSeq(ns, 1, index) \o <<x>> \o SubSeq(ns, index + 1, Len(ns))

\* new_note["time"] = ...; new_note["measure"] = ...
stamp_new_note(new_note, measure_index, bpm) ==
    [time |-> measure_index * bpm, measure |-> measure_index + 1] @@ new_note

add_measure_with_note(ns, measure_index, new_note, bpm) ==
    LET shifted == shift_measures(ns, measure_index, bpm)
        stamped == stamp_new_note(new_note, measure_index, bpm)
    IN  ListInsert(shifted, insertion_index(shifted, measure_index), stamped)

\* Slip: > for >=, so that an event exactly at start_time stays.
shift_time_note_strict(note, start_time, time_offset, bpm) ==
    IF note.time > start_time
    THEN [note EXCEPT !.time = @ + time_offset,
                      !.measure = IntTrunc(note.time + time_offset, bpm) + 1]
    ELSE note

\* shift_by_time, the body of the for loop for one note.
shift_time_note(note, start_time, time_offset, bpm) ==
    IF note.time >= start_time
    THEN [note EXCEPT !.time = @ + time_offset,
                      !.measure = IntTrunc(note.time + time_offset, bpm) + 1]
    ELSE note

shift_by_time(ns, start_time, time_offset, bpm) ==
    [i \in 1..Len(ns) |-> shift_time_note(ns[i], start_time, time_offset, bpm)]

(***************************************************************************)
(* Songs the editor loads (load_song): events in non-decreasing time order *)
(* whose measure agrees with their time.                                   *)
(***************************************************************************)
InitEvents(bpm) ==
    {[note |-> G4, time |-> (m - 1) * bpm + NoteOffset, duration |-> Beat,
      measure |-> m] : m \in InitMeasures}
    \cup
    {[rest |-> TRUE, time |-> (m - 1) * bpm + RestOffset, duration |-> Beat,
      measure |-> m] : m \in InitMeasures}

SeqsUpTo(S, n) == UNION {[1..k -> S] : k \in 0..n}

TimeOrdered(ns) == \A i \in 1..(Len(ns) - 1) : ns[i].time <= ns[i + 1].time

\* new_note arguments of add_measure_with_note: well-formed ones as main()
\* builds them, and ones with no pitch/rest key or a non-positive duration.
NewNotes ==
    { [note |-> G4, duration |-> Beat],
      [duration |-> Beat],
      [note |-> G4, duration |-> 0],
      [note |-> G4, duration |-> -Beat] }

NoOp == [name |-> "none"]
NoBase == [set |-> FALSE]

\* The importer before it reads anything (combine_parts, lines 69-70).
ImporterIdle ==
    /\ pc = "file_loop"
    /\ divisions = 0
    /\ current_time = 0
    /\ measure_time = 0
    /\ combined_notes = <<>>
    /\ notes_by_time = <<>>
    /\ written = <<>>
    /\ read = [files |-> 0, measures |-> 0, source |-> <<>>]

Init ==
    /\ timeSignature \in TimeSignatures
    /\ notes \in {ns \in SeqsUpTo(InitEvents(get_beats_per_measure(timeSignature)),
                                   MaxInitNotes) : TimeOrdered(ns)}
    /\ op = NoOp
    /\ prev = <<>>
    /\ base = NoBase
    /\ nEdits = 0
    /\ ImporterIdle

Record(newOp) ==
    /\ nEdits < MaxEdits
    /\ nEdits' = nEdits + 1
    /\ op' = newOp
    /\ prev' = notes
    /\ base' = IF /\ newOp.name = "remove"
                   /\ op.name = "shift"
                   /\ op.measure_index = newOp.measure_index
                THEN [set |-> TRUE, notes |-> prev]
                ELSE NoBase
    /\ UNCHANGED <<timeSignature, importerVars>>

\* main(): action 'shift'
ShiftMeasures ==
    \E m \in MeasureIndices :
        /\ notes' = shift_measures(notes, m, get_beats_per_measure(timeSignature))
        /\ Record([name |-> "shift", measure_index |-> m])

\* main(): action 'add'
AddMeasureWithNote ==
    \E m \in MeasureIndices, e \in NewNotes :
        /\ notes' = add_measure_with_note(notes, m, e,
                                          get_beats_per_measure(timeSignature))
        /\ Record([name |-> "add", measure_index |-> m, new_note |-> e])

\* main(): action 'remove'
RemoveMeasure ==
    \E m \in MeasureIndices :
        /\ notes' = remove_measure(notes, m, get_beats_per_measure(timeSignature))
        /\ Record([name |-> "remove", measure_index |-> m])

\* main(): action 'timeshift'
ShiftByTime ==
    \E s \in StartTimes, d \in TimeOffsets :
        /\ notes' = shift_by_time(notes, s, d, get_beats_per_measure(timeSignature))
        /\ Record([name |-> "timeshift", start_time |-> s, time_offset |-> d])

Next ==
    \/ ShiftMeasures
    \/ AddMeasureWithNote
    \/ RemoveMeasure
    \/ ShiftByTime

Spec == Init /\ [][Next]_vars

\* The measure-based edits only.
NextMeasure ==
    \/ ShiftMeasures
    \/ AddMeasureWithNote
    \/ RemoveMeasure

MeasureSpec == Init /\ [][NextMeasure]_vars

(***************************************************************************)
(* process_sheet_music.py                                                  *)
(*                                                                         *)
(* A note element is a record holding its child elements: "rest" when it   *)
(* has a rest child, "duration" with the number in its text, "pitch" with  *)
(* the children step, octave (character sequences) and alter (a number).   *)
(***************************************************************************)
DivisionsValues == {3, 4}               \* <divisions> of a document

\* C5 and G#4: the letter G is above C, the pitch C5 is above G#4.
PitchC5 == [step |-> <<"C">>, octave |-> <<"5">>]
PitchGs4 == [step |-> <<"G">>, octave |-> <<"4">>, alter |-> 1]

NoteElems ==
    { [duration |-> 1, pitch |-> PitchC5],
      [duration |-> 1, pitch |-> PitchGs4],
      [duration |-> 1, rest |-> TRUE],
      [pitch |-> PitchC5],                          \* no duration element
      [duration |-> 1],                             \* neither rest nor pitch
      [duration |-> 1, pitch |-> [octave |-> <<"4">>]] }   \* pitch without step

\* parse_duration: float(duration) / divisions, in ticks.
parse_duration(duration, div) == (duration * Beat) \div div

\* get_note_info, lines 50-58.
accidental(alter) ==
    IF alter = 1 THEN <<"#">>
    ELSE IF alter = -1 THEN <<"b">>
    ELSE IF alter = 2 THEN <<"#", "#">>
    ELSE IF alter = -2 THEN <<"b", "b">>
    ELSE <<>>

\* get_note_info: the dict returned ("info"), None ("none"), or an
\* AttributeError from .text of a missing step or octave ("raise").
get_note_info(note_elem, div) ==
    IF "duration" \notin DOMAIN note_elem
    THEN [outcome |-> "none"]
    ELSE LET duration == parse_duration(note_elem.duration, div)
         IN  IF "rest" \in DOMAIN note_elem
             THEN [outcome |-> "info",
                   info |-> [rest |-> TRUE, duration |-> duration]]
             ELSE IF "pitch" \notin DOMAIN note_elem
             THEN [outcome |-> "none"]
             ELSE LET pitch_elem == note_elem.pitch
                  IN  IF \/ "step" \notin DOMAIN pitch_elem
                         \/ "octave" \notin DOMAIN pitch_elem
                      THEN [outcome |-> "raise"]
                      ELSE LET alter == IF "alter" \in DOMAIN pitch_elem
                                        THEN pitch_elem.alter ELSE 0
                           IN  [outcome |-> "info",
                                info |-> [note |-> pitch_elem.step
                                                   \o accidental(alter)
                                                   \o pitch_elem.octave,
                                          duration |-> duration]]

Abs(x) == IF x < 0 THEN -x ELSE x

\* Python round(n / d) for d > 0: to the nearest integer, ties to the even one.
PyRound(n, d) ==
    LET q == n \div d
        r == n % d
    IN  IF 2 * r < d THEN q
        ELSE IF 2 * r > d THEN q + 1
        ELSE IF q % 2 = 0 THEN q ELSE q + 1

\* Slip: round(time * 2) without the division by 2.
quantize_time_not_halved(time) == PyRound(2 * time, Beat) * Beat

\* convert_to_json, line 160: round(time * 2) / 2.
quantize_time(time) == (PyRound(2 * time, Beat) * Beat) \div 2

\* convert_to_json, lines 162-166: the nearest third of a beat when the
\* duration is within 0.01 beat of it, else the nearest half beat.
quantize_duration(duration) ==
    LET triplet == (PyRound(3 * duration, Beat) * Beat) \div 3
    IN  IF 100 * Abs(duration - triplet) < Beat
        THEN triplet
        ELSE (PyRound(2 * duration, Beat) * Beat) \div 2

\* convert_to_json, lines 168-169: the note with its rounded time and duration.
quantize_note(note) ==
    [note EXCEPT !.time = quantize_time(note.time),
                 !.duration = quantize_duration(note.duration)]

\* convert_to_json, lines 157-174: the dict from each rounded time to the
\* notes at that time, in their order in song_data["notes"].
group_by_time(ns) ==
    LET q == [i \in 1..Len(ns) |-> quantize_note(ns[i])]
    IN  [t \in {q[i].time : i \in 1..Len(q)} |->
            SelectSeq(q, LAMBDA n : n.time = t)]

\* int() of a digit character.
DigitValue(c) ==
    CASE c = "0" -> 0 [] c = "1" -> 1 [] c = "2" -> 2 [] c = "3" -> 3
      [] c = "4" -> 4 [] c = "5" -> 5 [] c = "6" -> 6 [] c = "7" -> 7
      [] c = "8" -> 8 [] c = "9" -> 9

\* The dict of line 187.
PitchClass(c) ==
    CASE c = "C" -> 0 [] c = "D" -> 2 [] c = "E" -> 4 [] c = "F" -> 5
      [] c = "G" -> 7 [] c = "A" -> 9 [] c = "B" -> 11

\* float('-inf'), below every pitch key of a note name with a digit octave.
MinusInfinity == -1

\* Slip: the octave is left out of the key.
sort_key_letter_only(x) ==
    IF "rest" \in DOMAIN x
    THEN MinusInfinity
    ELSE PitchClass(x.note[1])

\* The sort key of lines 187 and 234: x['note'][-1] is the last character,
\* x['note'][0] the first.
sort_key(x) ==
    IF "rest" \in DOMAIN x
    THEN MinusInfinity
    ELSE DigitValue(x.note[Len(x.note)]) * 12 + PitchClass(x.note[1])

\* list.sort(key=..., reverse=True): descending by key, and stable (elements
\* with equal keys keep their order).  x goes after the elements whose key is
\* at least its own.
RECURSIVE sort_insert(_, _)
sort_insert(sorted, x) ==
    IF sorted = <<>> THEN <<x>>
    ELSE IF sort_key(Head(sorted)) >= sort_key(x)
         THEN <<Head(sorted)>> \o sort_insert(Tail(sorted), x)
         ELSE <<x>> \o sorted

RECURSIVE sort_loop(_, _)
sort_loop(sorted, todo) ==
    IF todo = <<>> THEN sorted
    ELSE sort_loop(sort_insert(sorted, Head(todo)), Tail(todo))

sort_by_pitch(ns) == sort_loop(<<>>, ns)

\* Lines 191-194 and 240-243: the keys of an event that are written.
formatted_note(note) ==
    IF "rest" \in DOMAIN note
    THEN [rest |-> TRUE, time |-> note.time, duration |-> note.duration]
    ELSE [note |-> note.note, time |-> note.time, duration |-> note.duration]

\* sorted(notes_by_time.keys()) as a sequence.
RECURSIVE sorted_keys(_)
sorted_keys(S) ==
    IF S = {} THEN <<>>
    ELSE LET least == CHOOSE t \in S : \A u \in S : t <= u
         IN  <<least>> \o sorted_keys(S \ {least})

\* Lines 223-248: the groups in ascending time, each as it is after its sort.
RECURSIVE write_groups(_, _)
write_groups(by_time, keys) ==
    IF keys = <<>> THEN <<>>
    ELSE LET group == by_time[Head(keys)]
         IN  [i \in 1..Len(group) |-> formatted_note(group[i])]
             \o write_groups(by_time, Tail(keys))

write_notes(by_time) == write_groups(by_time, sorted_keys(DOMAIN by_time))

(***************************************************************************)
(* combine_parts, one step per loop iteration, then convert_to_json.       *)
(***************************************************************************)
ImportInit ==
    /\ timeSignature = <<4, 4>>
    /\ notes = <<>>
    /\ op = NoOp
    /\ prev = <<>>
    /\ base = NoBase
    /\ nEdits = 0
    /\ ImporterIdle

\* Line 83: the next document; lines 113-117: its divisions.
StartFile ==
    /\ pc = "file_loop"
    /\ read.files < MaxFiles
    /\ \E d \in DivisionsValues : divisions' = d
    /\ read' = [read EXCEPT !.files = @ + 1]
    /\ pc' = "part_loop"
    /\ UNCHANGED <<current_time, measure_time, combined_notes, notes_by_time,
                   written, editorVars>>

\* Lines 114-116: a document without a divisions element is passed over.
SkipFile ==
    /\ pc = "file_loop"
    /\ read.files < MaxFiles
    /\ read' = [read EXCEPT !.files = @ + 1]
    /\ UNCHANGED <<pc, divisions, current_time, measure_time, combined_notes,
                   notes_by_time, written, editorVars>>

\* StartPart with a cursor of its own for every part, starting at 0.
StartPart_from_zero ==
    /\ pc = "part_loop"
    /\ measure_time' = 0
    /\ pc' = "measure_loop"
    /\ UNCHANGED <<divisions, current_time, combined_notes, notes_by_time,
                   written, read, editorVars>>

\* Line 120: the next part; line 121.
StartPart ==
    /\ pc = "part_loop"
    /\ measure_time' = current_time
    /\ pc' = "measure_loop"
    /\ UNCHANGED <<divisions, current_time, combined_notes, notes_by_time,
                   written, read, editorVars>>

\* Line 120: no part is left in the document.
EndFile ==
    /\ pc = "part_loop"
    /\ pc' = "file_loop"
    /\ UNCHANGED <<divisions, current_time, measure_time, combined_notes,
                   notes_by_time, written, read, editorVars>>

\* Line 123: the next measure of the part.
StartMeasure ==
    /\ pc = "measure_loop"
    /\ read.measures < MaxMeasures
    /\ read' = [read EXCEPT !.measures = @ + 1]
    /\ pc' = "note_loop"
    /\ UNCHANGED <<divisions, current_time, measure_time, combined_notes,
                   notes_by_time, written, editorVars>>

\* Line 123: no measure is left in the part; line 132.
EndPart ==
    /\ pc = "measure_loop"
    /\ current_time' = measure_time
    /\ pc' = "part_loop"
    /\ UNCHANGED <<divisions, measure_time, combined_notes, notes_by_time,
                   written, read, editorVars>>

\* Lines 125-130: the next note element of the measure.  An exception leaves
\* the document (lines 134-136).
ProcessNote ==
    /\ pc = "note_loop"
    /\ \E note_elem \in NoteElems :
          LET got == get_note_info(note_elem, divisions)
          IN  CASE got.outcome = "raise" ->
                     /\ pc' = "file_loop"
                     /\ UNCHANGED <<combined_notes, measure_time, read>>
                [] got.outcome = "none" ->
                     /\ UNCHANGED <<pc, combined_notes, measure_time, read>>
                [] got.outcome = "info" ->
                     /\ Len(combined_notes) < MaxNotes
                     /\ combined_notes' =
                            Append(combined_notes,
                                   [time |-> measure_time] @@ got.info)
                     /\ measure_time' = measure_time + got.info.duration
                     /\ read' = [read EXCEPT
                                    !.source = Append(@,
                                        [file |-> read.files,
                                         measure |-> read.measures,
                                         elem |-> note_elem])]
                     /\ UNCHANGED pc
    /\ UNCHANGED <<divisions, current_time, notes_by_time, written, editorVars>>

\* Line 125: no note element is left in the measure.
EndMeasure ==
    /\ pc = "note_loop"
    /\ pc' = "measure_loop"
    /\ UNCHANGED <<divisions, current_time, measure_time, combined_notes,
                   notes_by_time, written, read, editorVars>>

\* Line 83: no document is left; line 138.
EndCombine ==
    /\ pc = "file_loop"
    /\ pc' = "combined"
    /\ UNCHANGED <<divisions, current_time, measure_time, combined_notes,
                   notes_by_time, written, read, editorVars>>

\* convert_to_json, lines 156-174.  The dicts of song_data["notes"] are
\* updated in place.
Quantize ==
    /\ pc = "combined"
    /\ combined_notes' = [i \in 1..Len(combined_notes) |->
                              quantize_note(combined_notes[i])]
    /\ notes_by_time' = group_by_time(combined_notes)
    /\ pc' = "grouped"
    /\ UNCHANGED <<divisions, current_time, measure_time, written, read,
                   editorVars>>

\* convert_to_json, lines 176-252: every group is sorted in place (line 187,
\* and again at line 234) and written.
WriteJson ==
    /\ pc = "grouped"
    /\ notes_by_time' = [t \in DOMAIN notes_by_time |->
                            sort_by_pitch(sort_by_pitch(notes_by_time[t]))]
    /\ written' = write_notes(notes_by_time')
    /\ pc' = "written"
    /\ UNCHANGED <<divisions, current_time, measure_time, combined_notes, read,
                   editorVars>>

ImportNext ==
    \/ StartFile
    \/ SkipFile
    \/ StartPart
    \/ EndFile
    \/ StartMeasure
    \/ EndPart
    \/ ProcessNote
    \/ EndMeasure
    \/ EndCombine
    \/ Quantize
    \/ WriteJson

ImportSpec == ImportInit /\ [][ImportNext]_vars

(***************************************************************************)
(* Properties of the timeline editor.                                      *)
(***************************************************************************)
bpmNow == get_beats_per_measure(timeSignature)

\* The keys and values of an event other than time and measure.
SamePayload(a, b) ==
    /\ DOMAIN a = DOMAIN b
    /\ \A k \in DOMAIN a \ {"time", "measure"} : a[k] = b[k]

MeasureConsistent(ns, bpm) ==
    \A i \in 1..Len(ns) : ns[i].measure = MeasureOf(ns[i].time, bpm)

\* C1: starting from a song whose events all satisfy
\* measure = floor(time / beatsPerMeasure) + 1, after any sequence of
\* shift_measures, add_measure_with_note and remove_measure calls every event
\* of notes, the inserted ones included, still satisfies it.
C1_MeasureFormulaKept == MeasureConsistent(notes, bpmNow)

\* C1 witness: two measure-based edits were made, the last one moved events
\* and an inserted event is in notes next to loaded ones.
C1_Witness ==
    /\ nEdits = MaxEdits
    /\ op.name \in {"shift", "remove"}
    /\ notes # prev
    /\ \E i, j \in 1..Len(notes) :
          /\ notes[i].measure > 1
          /\ notes[i].time # (notes[i].measure - 1) * bpmNow
          /\ notes[j].time = (notes[j].measure - 1) * bpmNow

\* C2: shift_measures(song, m) adds beatsPerMeasure to the time and 1 to the
\* measure of every event whose measure is >= m + 1, leaves every event whose
\* measure is < m + 1 unchanged, and keeps the number and order of events.
C2_ShiftMeasures ==
    op.name = "shift" =>
        /\ Len(notes) = Len(prev)
        /\ \A i \in 1..Len(prev) :
              IF prev[i].measure >= op.measure_index + 1
              THEN /\ notes[i].time = prev[i].time + bpmNow
                   /\ notes[i].measure = prev[i].measure + 1
                   /\ SamePayload(notes[i], prev[i])
              ELSE notes[i] = prev[i]

\* C2 witness: a shift that moved the event of measure m + 1 and a later
\* one, and left an earlier one alone.
C2_Witness ==
    /\ op.name = "shift"
    /\ \E i, j, k \in 1..Len(prev) :
          /\ prev[i].measure < op.measure_index + 1
          /\ prev[j].measure = op.measure_index + 1
          /\ prev[k].measure > op.measure_index + 1

\* The indices of ns whose event is not in measure m + 1, and the k-th of them.
Survivors(ns, m) == {i \in 1..Len(ns) : ns[i].measure # m + 1}
KthOf(S, k) == CHOOSE i \in S : Cardinality({j \in S : j <= i}) = k

\* C3: remove_measure(song, m) drops exactly the events of measure m + 1,
\* keeps every event of a later measure with time - beatsPerMeasure and
\* measure - 1, keeps every event of an earlier measure unchanged, and keeps
\* the survivors in their original order.
C3_RemoveMeasure ==
    op.name = "remove" =>
        LET keep == Survivors(prev, op.measure_index)
        IN  /\ Len(notes) = Cardinality(keep)
            /\ \A k \in 1..Len(notes) :
                  LET old == prev[KthOf(keep, k)]
                  IN  IF old.measure > op.measure_index + 1
                      THEN /\ notes[k].time = old.time - bpmNow
                           /\ notes[k].measure = old.measure - 1
                           /\ SamePayload(notes[k], old)
                      ELSE notes[k] = old

\* C3 witness: a removal that dropped an event, moved a later one back and
\* kept an earlier one.
C3_Witness ==
    /\ op.name = "remove"
    /\ \E i, j, k \in 1..Len(prev) :
          /\ prev[i].measure < op.measure_index + 1
          /\ prev[j].measure = op.measure_index + 1
          /\ prev[k].measure > op.measure_index + 1

\* ns without its p-th element.
WithoutAt(ns, p) == SubSeq(ns, 1, p - 1) \o SubSeq(ns, p + 1, Len(ns))

\* The new event sits at position p of ns: its time and measure are those of
\* measure index k, it is new_note otherwise, nothing before it is in a
\* measure > k + 1, and it is last or directly followed by such an event.
InsertedAt(ns, p, k, new_note, bpm) ==
    /\ ns[p].time = k * bpm
    /\ ns[p].measure = k + 1
    /\ DOMAIN ns[p] = DOMAIN new_note \cup {"time", "measure"}
    /\ \A f \in DOMAIN new_note : ns[p][f] = new_note[f]
    /\ \A j \in 1..(p - 1) : ns[j].measure <= k + 1
    /\ IF \E j \in 1..Len(ns) : ns[j].measure > k + 1
       THEN p < Len(ns) /\ ns[p + 1].measure > k + 1
       ELSE p = Len(ns)

\* C4: after add_measure_with_note(song, k, e) the inserted event has
\* time = k * beatsPerMeasure and measure = k + 1 and sits immediately before
\* the first event whose measure is > k + 1, or at the end of notes when
\* there is none; the other events are the shifted old ones, in order.
C4_AddMeasureWithNote ==
    op.name = "add" =>
        \E p \in 1..Len(notes) :
            /\ InsertedAt(notes, p, op.measure_index, op.new_note, bpmNow)
            /\ Len(notes) = Len(prev) + 1
            /\ \A i \in 1..Len(prev) :
                  LET new == WithoutAt(notes, p)[i]
                  IN  /\ SamePayload(new, prev[i])
                      /\ new.time \in {prev[i].time, prev[i].time + bpmNow}

\* C4 witness: an insertion in front of a later event, after an earlier one.
C4_Witness ==
    /\ op.name = "add"
    /\ \E p \in 2..(Len(notes) - 1) :
          /\ InsertedAt(notes, p, op.measure_index, op.new_note, bpmNow)
          /\ notes[p - 1].measure < op.measure_index + 1

\* C4 witness for the other case: an insertion at the end of a non-empty
\* notes list whose events are all in earlier measures.
C4_WitnessAtEnd ==
    /\ op.name = "add"
    /\ Len(prev) > 0
    /\ InsertedAt(notes, Len(notes), op.measure_index, op.new_note, bpmNow)

NoEventIn(ns, measure) == \A i \in 1..Len(ns) : ns[i].measure # measure

C6_MeasureRecomputed ==
    op.name = "timeshift" =>
        \A i \in 1..Len(prev) :
            prev[i].time >= op.start_time =>
                notes[i].measure =
                    MeasureOf(prev[i].time + op.time_offset, bpmNow)

\* C7: shift_by_time leaves every event with time < startTime unchanged in
\* all fields, sets time' = time + offset for every other event without
\* clamping, and keeps every event at its index.
C7_ShiftByTimeFrame ==
    op.name = "timeshift" =>
        /\ Len(notes) = Len(prev)
        /\ \A i \in 1..Len(prev) :
              IF prev[i].time < op.start_time
              THEN notes[i] = prev[i]
              ELSE /\ notes[i].time = prev[i].time + op.time_offset
                   /\ SamePayload(notes[i], prev[i])

\* C7 witness: a time shift that left an event alone, moved another one to a
\* negative time and left notes out of time order.
C7_Witness ==
    /\ op.name = "timeshift"
    /\ \E i, j, k \in 1..Len(prev) :
          /\ prev[i].time < op.start_time
          /\ prev[j].time >= op.start_time
          /\ notes[j].time < prev[i].time
          /\ notes[k].time < 0
    /\ ~TimeOrdered(notes)

\* What the specification requires of new_note.
ValidNewNote(e) ==
    /\ ("note" \in DOMAIN e) \/ ("rest" \in DOMAIN e)
    /\ "duration" \in DOMAIN e
    /\ e.duration > 0

\* C8: add_measure_with_note called with an event that has neither a pitch
\* nor a rest flag, or whose duration is not positive, leaves notes exactly
\* as they were.
C8_InvalidNoteRejected ==
    (op.name = "add" /\ ~ValidNewNote(op.new_note)) => notes = prev

(***************************************************************************)
(* Properties of the importer.                                             *)
(***************************************************************************)
IsRest(e) == "rest" \in DOMAIN e

\* Pitch height of a note name: octave * 12 + pitch class of the letter.
PitchHeight(name) == DigitValue(name[Len(name)]) * 12 + PitchClass(name[1])

\* Event a may directly precede event b of the same time: no rest before a
\* pitched note, no lower pitch before a higher one.
DescendingPair(a, b) ==
    /\ IsRest(a) => IsRest(b)
    /\ (~IsRest(a) /\ ~IsRest(b)) => PitchHeight(a.note) >= PitchHeight(b.note)

\* C9: the notes written by convert_to_json are in ascending order of their
\* quantized time, and the events of one time are in non-increasing pitch
\* height with every rest after every pitched note.
C9_WrittenOrder ==
    pc = "written" =>
        /\ \A i \in 1..Len(written) : written[i].time % (Beat \div 2) = 0
        /\ \A i \in 1..(Len(written) - 1) :
              \/ written[i].time < written[i + 1].time
              \/ /\ written[i].time = written[i + 1].time
                 /\ DescendingPair(written[i], written[i + 1])

\* C9 witness: three events were written, the last two at one time; they
\* were read as a rest, then G#4, then C5, and are written C5, G#4, rest or
\* with the first alone in an earlier group.
C9_Witness ==
    /\ pc = "written"
    /\ Len(written) = MaxNotes
    /\ \E i \in 1..(Len(written) - 1) :
          /\ written[i].time = written[i + 1].time
          /\ ~IsRest(written[i]) /\ ~IsRest(written[i + 1])
          /\ PitchHeight(written[i].note) > PitchHeight(written[i + 1].note)
          /\ \E j, k \in 1..Len(combined_notes) :
                /\ j < k
                /\ formatted_note(combined_notes[j]) = written[i + 1]
                /\ formatted_note(combined_notes[k]) = written[i]
    /\ \E i \in 1..(Len(written) - 1) : written[i].time < written[i + 1].time
    /\ \E i \in 1..Len(written) : IsRest(written[i])

\* C10: every event written by the importer has a measure number, the
\* number (counted from 1 through all documents of the piece) of the measure
\* element it was read from.
C10_MeasureNumbers ==
    pc = "written" =>
        \A i \in 1..Len(written) :
            /\ "measure" \in DOMAIN written[i]
            /\ \E j \in 1..Len(combined_notes) :
                  /\ formatted_note(combined_notes[j]) =
                        [k \in DOMAIN written[i] \ {"measure"} |-> written[i][k]]
                  /\ written[i].measure = read.source[j].measure

(***************************************************************************)
(* The time cursor of combine_parts.                                       *)
(***************************************************************************)
\* combined_notes still holds the times stamped by combine_parts.
InCombine ==
    pc \in {"file_loop", "part_loop", "measure_loop", "note_loop", "combined"}

EndOf(e) == e.time + e.duration

\* Event i is the first one read from its document.
FirstOfFile(i) == i = 1 \/ read.source[i].file # read.source[i - 1].file

CursorStep ==
    /\ (pc = "part_loop" /\ pc' = "measure_loop") => measure_time' = current_time
    /\ (pc = "note_loop" /\ Len(combined_notes') = Len(combined_notes) + 1) =>
          /\ combined_notes'[Len(combined_notes')].time = measure_time
          /\ measure_time' = EndOf(combined_notes'[Len(combined_notes')])
    /\ current_time' # current_time =>
          (pc = "measure_loop" /\ current_time' = measure_time)

C12_OnlyTheNoteSkipped ==
    [][pc = "note_loop" =>
          /\ pc' \in {"note_loop", "measure_loop"}
          /\ Len(combined_notes') >= Len(combined_notes)
          /\ \A i \in 1..Len(combined_notes) :
                combined_notes'[i] = combined_notes[i]]_vars

(***************************************************************************)
(* Quantizing what is already quantized.                                   *)
(***************************************************************************)
\* Lines 156-197 applied to a notes sequence: rounded, grouped by time,
\* every group sorted (twice, as WriteJson does), written in ascending time.
requantized(ns) ==
    LET by_time == group_by_time(ns)
    IN  write_notes([t \in DOMAIN by_time |->
                        sort_by_pitch(sort_by_pitch(by_time[t]))])

\* Times and durations up to three beats, in twelfths of a beat.
QuantizeRange == 0..(3 * Beat)

\* Rounding a rounded time or a rounded duration gives it back.
RoundingIdempotent ==
    \A x \in QuantizeRange :
        /\ quantize_time(quantize_time(x)) = quantize_time(x)
        /\ quantize_duration(quantize_duration(x)) = quantize_duration(x)

\* C13: quantization is idempotent.  Rounding a rounded time or a rounded
\* duration gives it back, and the quantize-group-sort step applied to the
\* notes it has written returns the same sequence: same events, same times
\* and durations, same order.
C13_QuantizeIdempotent ==
    /\ RoundingIdempotent
    /\ pc = "written" => requantized(written) = written

\* C13 witness: MaxNotes events were written, not all at time 0, with a
\* duration of a third of a beat among them and with two pitched events of
\* one time that the sort has exchanged.
C13_Witness ==
    /\ pc = "written"
    /\ Len(written) = MaxNotes
    /\ requantized(written) = written
    /\ \E i \in 1..Len(written) : written[i].time > 0
    /\ \E i \in 1..Len(written) : written[i].duration = Beat \div 3
    /\ \E i \in 1..(Len(written) - 1) :
          /\ written[i].time = written[i + 1].time
          /\ ~IsRest(written[i]) /\ ~IsRest(written[i + 1])
          /\ written[i].note # written[i + 1].note
          /\ formatted_note(combined_notes[i]) = written[i + 1]
          /\ formatted_note(combined_notes[i + 1]) = written[i]

(***************************************************************************)
(* Durations and times of the written events.                              *)
(***************************************************************************)
\* C14: every event written by the importer has a duration above 0 and a
\* time of 0 or more.  Every event of combined_notes comes from a note
\* element whose raw duration is positive.
C14_PositiveDuration ==
    pc = "written" =>
        \A i \in 1..Len(written) :
            /\ written[i].duration > 0
            /\ written[i].time >= 0

\* The raw duration of every note element read into combined_notes is
\* positive, and so is the duration parse_duration gives it.
C14_RawDurationsPositive ==
    \A j \in 1..Len(read.source) :
        /\ "duration" \in DOMAIN read.source[j].elem
        /\ read.source[j].elem.duration > 0
        /\ InCombine => combined_notes[j].duration > 0

(***************************************************************************)
(* Time order under the measure edits.                                     *)
(***************************************************************************)
\* C15: from notes in non-decreasing time order with consistent measure
\* numbers, after every sequence of shift_measures, add_measure_with_note
\* and remove_measure calls the notes are in non-decreasing time order, and
\* every call keeps that order by itself: none of them sorts.
C15_TimeOrderKept ==
    /\ \A i \in 1..(Len(prev) - 1) : prev[i].time <= prev[i + 1].time
    /\ \A i \in 1..(Len(notes) - 1) : notes[i].time <= notes[i + 1].time

\* C15 witness: the last of MaxEdits calls was add_measure_with_note and
\* put its note between an earlier and a later event.
C15_Witness ==
    /\ nEdits = MaxEdits
    /\ op.name = "add"
    /\ ValidNewNote(op.new_note)
    /\ \E i \in 2..(Len(notes) - 1) :
          /\ notes[i].time = op.measure_index * bpmNow
          /\ notes[i - 1].time < notes[i].time
          /\ notes[i].time < notes[i + 1].time
          /\ \A j \in 1..Len(prev) : prev[j] # notes[i]

====
